---- MODULE Spec2Model ----
(***************************************************************************)
(* Authentication / session lifecycle of the micro-survey dashboard        *)
(* backend: users, the refresh-token ledger, the password-reset ledger and *)
(* the session service composed from them (modules/auth/auth.service.js,   *)
(* modules/auth/tokens.utils.js, migrations 002 and 017).                  *)
(*                                                                         *)
(* Every handler is split at its awaited database statements: one action   *)
(* per statement (a transaction is one statement, it commits atomically),  *)
(* so that two requests interleave exactly where the Node event loop lets  *)
(* them interleave.                                                        *)
(***************************************************************************)
EXTENDS Integers, FiniteSets, Sequences, TLC

----------------------------------------------------------------------------
(* Bounds of the model *)

\* request handlers that may be in flight at the same time
Procs == {"p1", "p2"}
\* a single client issuing one call after the other
SeqProcs == {"p1"}
\* the clock runs from 1 to MaxTime
MaxTime == 4
\* number of calls that get past their first checks: calls made one after the
\* other, calls made while the clock runs, overlapping calls
MaxCalls == 3
MaxCallsTime == 2
MaxCallsConc == 3

----------------------------------------------------------------------------
(* Values *)

\* SQL NULL in a nullable timestamp / uuid column
NULL == -1

\* e-mail addresses are character sequences, so that toLowerCase acts on them
Emails == { <<"a", "@", "x">>, <<"A", "@", "x">>, <<"b", "@", "x">> }
NoEmail == <<>>

\* "Passw0rd1", "Passw0rd2" have 9 characters, "short7!" has 7
Passwords == {"Passw0rd1", "Passw0rd2", "short7!"}

\* the address of the client behind each request handler (req.ip)
ReqIp(p) == IF p = "p1" THEN "10.0.0.1" ELSE "10.0.0.2"

\* opaque token values: the n-th value drawn from crypto.randomBytes
RefreshTokenValue(n) == <<"rt", n>>
ResetTokenValue(n) == <<"pr", n>>
\* a missing token (undefined / empty string) and a value never handed out
EmptyToken == <<>>
UnknownToken == <<"rt", 0>>

\* time is counted in abstract units; one unit stands for 6 hours in the
\* reset flow and the refresh lifetime / retention windows are scaled down
RefreshTokenExpiresDays == 1
ResetTokenExpiry == 1
RefreshRetentionDays == 1
\* the lifetime of an access token (ACCESS_TOKEN_EXPIRES_MIN), scaled down too
AccessTokenExpiresMin == 1
ResetRetentionDays == 1
MinPasswordLength == 8
BcryptCost == 12

----------------------------------------------------------------------------
(* Pure helpers *)

LowerChar(c) == IF c = "A" THEN "a" ELSE IF c = "B" THEN "b" ELSE IF c = "X" THEN "x" ELSE c

\* String.prototype.toLowerCase
ToLowerCase(s) == [i \in DOMAIN s |-> LowerChar(s[i])]

\* tokens.utils.js hashToken: SHA-256 digest of the token
hashToken(token) == <<"sha256", token>>

\* an absent hash (undefined)
NoHash == [alg |-> "none", cost |-> 0, pw |-> ""]

\* password.utils.js hashPassword: result of bcrypt.hash (self-describing)
BcryptHash(password) == [alg |-> "bcrypt", cost |-> BcryptCost, pw |-> password]

\* password.utils.js hashPassword throws for a missing or short password
hashPasswordThrows(password) == password = "" \/ Len(password) < MinPasswordLength

\* password.utils.js comparePassword
comparePassword(password, hash) ==
  IF password = "" \/ hash = NoHash
    THEN FALSE
    ELSE hash.alg = "bcrypt" /\ hash.pw = password

\* config.jwt.secret, the key access tokens are signed with
JwtSecret == "secret"

\* no access token
NoAccess == [sub |-> NULL, email |-> NoEmail, role |-> "", jti |-> NULL, type |-> "", iat |-> NULL,
             exp |-> NULL, key |-> ""]

\* jwt.utils.js generateAccessToken: the signed claims; jti is a fresh uuid,
\* exp follows from expiresIn, key is the key of the signature
generateAccessToken(userId, email, role, jti, t) ==
  [sub |-> userId, email |-> email, role |-> role, jti |-> jti, type |-> "access", iat |-> t,
   exp |-> t + AccessTokenExpiresMin, key |-> JwtSecret]

\* tokens.utils.js getRefreshTokenExpiry
getRefreshTokenExpiry(t) == t + RefreshTokenExpiresDays

----------------------------------------------------------------------------
(* State *)

VARIABLES
  users,                  \* table users
  organizations,          \* table organizations
  refresh_tokens,         \* table refresh_tokens
  password_reset_tokens,  \* table password_reset_tokens
  outbox,                 \* e-mails handed to the e-mail service
  now,                    \* NOW() / new Date()
  nextUserId,             \* next uuid for a user row
  nextRefresh,            \* next refresh token value / row id
  nextReset,              \* next reset token value / row id
  proc,                   \* the request handlers in flight
  quota,                  \* number of calls that may still get past their first checks
  resp,                   \* the response of the call the last step completed
  issued,                 \* history: every refresh token ever stored
  rotated,                \* history: tokens whose rotation committed
  consumed                \* history: reset tokens a resetPassword committed, and for whom

db == <<users, organizations, refresh_tokens, password_reset_tokens>>
counters == <<nextUserId, nextRefresh, nextReset>>
history == <<issued, rotated, consumed>>
vars == <<users, organizations, refresh_tokens, password_reset_tokens, outbox,
          now, nextUserId, nextRefresh, nextReset, proc, quota, resp, issued, rotated, consumed>>

\* a handler that is not running
Idle == [pc |-> "idle", op |-> "none", email |-> NoEmail, password |-> "",
         token |-> EmptyToken, user_id |-> NULL, rec_id |-> NULL, hash |-> NoHash]

\* no call completed in the last step
NoResp == [proc |-> "", op |-> "none", email |-> NoEmail, password |-> "",
           token |-> EmptyToken, user_id |-> NULL, status |-> 0, message |-> "",
           out_email |-> NoEmail, out_access |-> NoAccess, out_token |-> EmptyToken,
           bearer |-> NoAccess]

\* the state after the migrations have run: empty tables
Start(calls) ==
  /\ users = {}
  /\ organizations = {}
  /\ refresh_tokens = {}
  /\ password_reset_tokens = {}
  /\ outbox = {}
  /\ now = 1
  /\ nextUserId = 1
  /\ nextRefresh = 1
  /\ nextReset = 1
  /\ proc = [p \in Procs |-> Idle]
  /\ quota = calls
  /\ resp = NoResp
  /\ issued = {}
  /\ rotated = {}
  /\ consumed = {}

Init == Start(MaxCalls)

----------------------------------------------------------------------------
(* Calls and their results *)

\* the call of a handler starts with these arguments
Call(op, email, password, token) ==
  [Idle EXCEPT !.op = op, !.email = email, !.password = password, !.token = token]

\* utils/ApiError.js: an ApiError carries its status code to errorHandler
Fail(p, c, status, message) ==
  [NoResp EXCEPT !.proc = p, !.op = c.op, !.email = c.email, !.password = c.password,
                 !.token = c.token, !.user_id = c.user_id,
                 !.status = status, !.message = message]

\* middleware/errorHandler.js: an error that is not an ApiError becomes a 500
Throw(p, c, message) == Fail(p, c, 500, message)

\* the value a handler returns
Return(p, c, message, out_email, out_access, out_token) ==
  [NoResp EXCEPT !.proc = p, !.op = c.op, !.email = c.email, !.password = c.password,
                 !.token = c.token, !.user_id = c.user_id,
                 !.status = 200, !.message = message, !.out_email = out_email,
                 !.out_access = out_access, !.out_token = out_token]

\* the call of handler p is rejected by its first checks
Reject(p, r) == proc' = proc /\ resp' = r /\ quota' = quota

\* the call of handler p gets past its first checks
Accept(p, c) ==
  /\ quota > 0
  /\ quota' = quota - 1
  /\ proc' = [proc EXCEPT ![p] = c]
  /\ resp' = NoResp

\* handler p goes on to its next statement
Continue(p, c) == proc' = [proc EXCEPT ![p] = c] /\ resp' = NoResp /\ quota' = quota

\* handler p completes with response r
Complete(p, r) == proc' = [proc EXCEPT ![p] = Idle] /\ resp' = r /\ quota' = quota

----------------------------------------------------------------------------
(* Refresh token ledger: modules/auth/tokens.utils.js *)

NoRow == [id |-> NULL]

\* migration 002: trigger_delete_expired_tokens, AFTER INSERT ON refresh_tokens
delete_expired_refresh_tokens(rows, t) == {r \in rows : ~(r.expires_at < t)}

\* the row an INSERT INTO refresh_tokens writes (storeRefreshToken and rotate)
RefreshRow(id, token, userId, ip, t) ==
  [id |-> id, token |-> token, token_hash |-> hashToken(token), user_id |-> userId,
   expires_at |-> getRefreshTokenExpiry(t), created_by_ip |-> ip,
   revoked_at |-> NULL, revoked_by_ip |-> "", replaced_by_token |-> NULL]

\* storeRefreshToken: INSERT, after which the insert trigger runs
storeRefreshToken(rows, id, token, userId, ip, t) ==
  delete_expired_refresh_tokens(rows \cup {RefreshRow(id, token, userId, ip, t)}, t)

\* verifyRefreshToken without the check of revoked_at
verifyRefreshToken_ignoresRevoked(rows, token, t) ==
  LET found == {r \in rows : r.token_hash = hashToken(token)} IN
  IF found = {} THEN NoRow
  ELSE LET tokenData == CHOOSE r \in found : TRUE IN
       IF tokenData.expires_at < t THEN NoRow ELSE tokenData

\* verifyRefreshToken: the row, or NoRow (null) if absent, revoked or expired
verifyRefreshToken(rows, token, t) ==
  LET found == {r \in rows : r.token_hash = hashToken(token)} IN
  IF found = {} THEN NoRow
  ELSE LET tokenData == CHOOSE r \in found : TRUE IN
       IF tokenData.revoked_at # NULL THEN NoRow
       ELSE IF tokenData.expires_at < t THEN NoRow
       ELSE tokenData

\* a rotation whose UPDATE also clears revoked_at on the user's other rows
rotateTransaction_reinstatesOthers(rows, oldId, newId, newToken, userId, ip, t) ==
  LET revoked == {IF r.id = oldId
                    THEN [r EXCEPT !.revoked_at = t, !.revoked_by_ip = ip,
                                   !.replaced_by_token = newId]
                    ELSE IF r.user_id = userId
                      THEN [r EXCEPT !.revoked_at = NULL]
                      ELSE r : r \in rows}
  IN storeRefreshToken(revoked, newId, newToken, userId, ip, t)

\* rotateRefreshToken, the transaction: UPDATE ... WHERE id = old id, then INSERT
rotateTransaction(rows, oldId, newId, newToken, userId, ip, t) ==
  LET revoked == {IF r.id = oldId
                    THEN [r EXCEPT !.revoked_at = t, !.revoked_by_ip = ip,
                                   !.replaced_by_token = newId]
                    ELSE r : r \in rows}
  IN storeRefreshToken(revoked, newId, newToken, userId, ip, t)

\* an UPDATE that also requires the row not to be expired
revokeTargets_unexpired(rows, token) ==
  {r \in rows : r.token_hash = hashToken(token) /\ r.revoked_at = NULL /\ ~(r.expires_at < now)}

\* revokeRefreshToken: the rows the UPDATE ... RETURNING id touches
revokeTargets(rows, token) ==
  {r \in rows : r.token_hash = hashToken(token) /\ r.revoked_at = NULL}

\* revokeRefreshToken, lines 175-180: true if the UPDATE returned a row
revokeRefreshTokenReturns(rows, token) == revokeTargets(rows, token) # {}

\* revokeRefreshToken revoking every live row of the user who owns the token
revokeRefreshToken_allOfUser(rows, token, ip, t) ==
  {IF r.revoked_at = NULL /\ r.user_id \in {x.user_id : x \in revokeTargets(rows, token)}
     THEN [r EXCEPT !.revoked_at = t, !.revoked_by_ip = ip]
     ELSE r : r \in rows}

\* revokeRefreshToken: UPDATE ... WHERE token_hash = $3 AND revoked_at IS NULL
revokeRefreshToken(rows, token, ip, t) ==
  {IF r \in revokeTargets(rows, token)
     THEN [r EXCEPT !.revoked_at = t, !.revoked_by_ip = ip]
     ELSE r : r \in rows}

\* revokeAllUserTokens without the condition on user_id
revokeAllUserTokens_everyUser(rows, userId, t) ==
  {IF r.revoked_at = NULL THEN [r EXCEPT !.revoked_at = t] ELSE r : r \in rows}

\* revokeAllUserTokens
revokeAllUserTokens(rows, userId, t) ==
  {IF r.user_id = userId /\ r.revoked_at = NULL
     THEN [r EXCEPT !.revoked_at = t]
     ELSE r : r \in rows}

\* cleanupExpiredTokens(daysOld)
cleanupExpiredTokens(rows, daysOld, t) == {r \in rows : ~(r.expires_at < t - daysOld)}

----------------------------------------------------------------------------
(* Session service: modules/auth/auth.service.js *)

UserByEmail(email) == {u \in users : u.email = email}
UserById(id) == {u \in users : u.id = id}

\* the refresh / reset token values a client may present
RefreshInputs ==
  {EmptyToken, UnknownToken} \cup {RefreshTokenValue(n) : n \in 1..(nextRefresh - 1)}
ResetInputs ==
  {UnknownToken} \cup {ResetTokenValue(n) : n \in 1..(nextReset - 1)}

\* a users table whose email column has no UNIQUE constraint
usersEmailUnique_notEnforced(rows, email) == TRUE

\* CREATE TABLE users: email UNIQUE, the INSERT of a row with this email is allowed
usersEmailUnique(rows, email) == \A u \in rows : u.email # email

\* signup comparing the address as typed with the stored ones
SignupCheckResult_caseSensitive(email, password) ==
  IF UserByEmail(email) # {}
    THEN [status |-> 409, message |-> "Email already registered"]
  ELSE IF hashPasswordThrows(password)
    THEN [status |-> 500, message |-> "Password must be at least 8 characters"]
  ELSE [status |-> 200, message |-> ""]

\* signup, lines 27-37: what the SELECT of an existing user and hashPassword decide
SignupCheckResult(email, password) ==
  IF UserByEmail(ToLowerCase(email)) # {}
    THEN [status |-> 409, message |-> "Email already registered"]
  ELSE IF hashPasswordThrows(password)
    THEN [status |-> 500, message |-> "Password must be at least 8 characters"]
  ELSE [status |-> 200, message |-> ""]

\* signup, lines 27-37, the call goes on to the transaction
SignupCheck(p) ==
  /\ proc[p].pc = "idle"
  /\ \E email \in Emails, password \in Passwords :
       /\ SignupCheckResult(email, password).status = 200
       /\ Accept(p, [Call("signup", email, password, EmptyToken) EXCEPT
                       !.pc = "signup_tx", !.hash = BcryptHash(password)])
  /\ UNCHANGED <<db, outbox, now, counters, history>>

\* signup, lines 27-37, ConflictError or the error of hashPassword
SignupRejected(p) ==
  /\ proc[p].pc = "idle"
  /\ \E email \in Emails, password \in Passwords :
       LET check == SignupCheckResult(email, password) IN
       /\ check.status # 200
       /\ Reject(p, Fail(p, Call("signup", email, password, EmptyToken),
                         check.status, check.message))
  /\ UNCHANGED <<db, outbox, now, counters, history>>

\* the signup transaction storing the address as typed
SignupTx_keepsCase(p) ==
  /\ proc[p].pc = "signup_tx"
  /\ LET c == proc[p] IN
     IF UserByEmail(c.email) # {}
       THEN /\ Complete(p, Throw(p, c, "duplicate key value violates unique constraint"))
            /\ UNCHANGED <<users, organizations, nextUserId>>
       ELSE /\ users' = users \cup
                 {[id |-> nextUserId, email |-> c.email, password_hash |-> c.hash,
                   role |-> "user", is_active |-> TRUE]}
            /\ organizations' = organizations \cup {[id |-> nextUserId, owner_id |-> nextUserId]}
            /\ nextUserId' = nextUserId + 1
            /\ Continue(p, [c EXCEPT !.pc = "signup_store", !.user_id = nextUserId])
  /\ UNCHANGED <<refresh_tokens, password_reset_tokens, outbox, now,
                 nextRefresh, nextReset, history>>

\* signup, lines 40-62: the transaction inserting the user and its organization;
\* users.email is UNIQUE, a violation aborts the transaction
SignupTx(p) ==
  /\ proc[p].pc = "signup_tx"
  /\ LET c == proc[p]
         email == ToLowerCase(c.email) IN
     IF ~usersEmailUnique(users, email)
       THEN /\ Complete(p, Throw(p, c, "duplicate key value violates unique constraint"))
            /\ UNCHANGED <<users, organizations, nextUserId>>
       ELSE /\ users' = users \cup
                 {[id |-> nextUserId, email |-> email, password_hash |-> c.hash,
                   role |-> "user", is_active |-> TRUE]}
            /\ organizations' = organizations \cup {[id |-> nextUserId, owner_id |-> nextUserId]}
            /\ nextUserId' = nextUserId + 1
            /\ Continue(p, [c EXCEPT !.pc = "signup_store", !.user_id = nextUserId])
  /\ UNCHANGED <<refresh_tokens, password_reset_tokens, outbox, now,
                 nextRefresh, nextReset, history>>

\* what signup, login and refresh do when they hand out a refresh token:
\* generateSecureToken, storeRefreshToken / the rotation, and the history of it
IssueRefresh(userId, ip, from) ==
  LET refreshToken == RefreshTokenValue(nextRefresh) IN
  /\ issued' = issued \cup
       {[token |-> refreshToken, user_id |-> userId,
         expires_at |-> getRefreshTokenExpiry(now), from |-> from]}
  /\ nextRefresh' = nextRefresh + 1

\* signup, lines 66-92: tokens, storeRefreshToken, welcome e-mail, result
SignupStore(p) ==
  /\ proc[p].pc = "signup_store"
  /\ LET c == proc[p]
         email == ToLowerCase(c.email)
         refreshToken == RefreshTokenValue(nextRefresh)
         accessToken == generateAccessToken(c.user_id, email, "user", nextRefresh, now) IN
     /\ refresh_tokens' =
          storeRefreshToken(refresh_tokens, nextRefresh, refreshToken, c.user_id, ReqIp(p), now)
     /\ IssueRefresh(c.user_id, ReqIp(p), EmptyToken)
     /\ outbox' = outbox \cup {[kind |-> "welcome", to |-> email, token |-> EmptyToken]}
     /\ Complete(p, Return(p, c, "", email, accessToken, refreshToken))
  /\ UNCHANGED <<users, organizations, password_reset_tokens, now,
                 nextUserId, nextReset, rotated, consumed>>

\* login answering an unknown address with an error of its own
LoginCheck_userNotFound(email, password) ==
  LET found == UserByEmail(ToLowerCase(email)) IN
  IF found = {}
    THEN [status |-> 404, message |-> "User not found"]
  ELSE LET user == CHOOSE u \in found : TRUE IN
    IF ~user.is_active
      THEN [status |-> 403, message |-> "Account is disabled"]
    ELSE IF ~comparePassword(password, user.password_hash)
      THEN [status |-> 401, message |-> "Invalid email or password"]
    ELSE [status |-> 200, message |-> ""]

\* login, lines 100-124: what the SELECT and the checks decide
LoginCheck(email, password) ==
  LET found == UserByEmail(ToLowerCase(email)) IN
  IF found = {}
    THEN [status |-> 401, message |-> "Invalid email or password"]
  ELSE LET user == CHOOSE u \in found : TRUE IN
    IF ~user.is_active
      THEN [status |-> 403, message |-> "Account is disabled"]
    ELSE IF ~comparePassword(password, user.password_hash)
      THEN [status |-> 401, message |-> "Invalid email or password"]
    ELSE [status |-> 200, message |-> ""]

\* login, lines 98-124, the call goes on to the update of last_login_at
LoginSelect(p) ==
  /\ proc[p].pc = "idle"
  /\ \E email \in Emails, password \in Passwords :
       /\ LoginCheck(email, password).status = 200
       /\ Accept(p, [Call("login", email, password, EmptyToken) EXCEPT
            !.pc = "login_update",
            !.user_id = (CHOOSE u \in UserByEmail(ToLowerCase(email)) : TRUE).id])
  /\ UNCHANGED <<db, outbox, now, counters, history>>

\* login, lines 98-124, UnauthorizedError or ForbiddenError
LoginRejected(p) ==
  /\ proc[p].pc = "idle"
  /\ \E email \in Emails, password \in Passwords :
       LET check == LoginCheck(email, password) IN
       /\ check.status # 200
       /\ Reject(p, Fail(p, Call("login", email, password, EmptyToken),
                         check.status, check.message))
  /\ UNCHANGED <<db, outbox, now, counters, history>>

\* login, lines 127-130: UPDATE users SET last_login_at = NOW(); the column is
\* read by no statement of the session flows and is not kept in the rows
LoginUpdate(p) ==
  /\ proc[p].pc = "login_update"
  /\ Continue(p, [proc[p] EXCEPT !.pc = "login_store"])
  /\ UNCHANGED <<db, outbox, now, counters, history>>

\* login, lines 133-153: tokens, storeRefreshToken, result
LoginStore(p) ==
  /\ proc[p].pc = "login_store"
  /\ LET c == proc[p]
         email == ToLowerCase(c.email)
         refreshToken == RefreshTokenValue(nextRefresh)
         accessToken == generateAccessToken(c.user_id, email, "user", nextRefresh, now) IN
     /\ refresh_tokens' =
          storeRefreshToken(refresh_tokens, nextRefresh, refreshToken, c.user_id, ReqIp(p), now)
     /\ IssueRefresh(c.user_id, ReqIp(p), EmptyToken)
     /\ Complete(p, Return(p, c, "", email, accessToken, refreshToken))
  /\ UNCHANGED <<users, organizations, password_reset_tokens, outbox, now,
                 nextUserId, nextReset, rotated, consumed>>

\* refreshAccessToken, lines 160-169: what the first checks decide
RefreshCheck(token) ==
  IF token = EmptyToken
    THEN [status |-> 401, message |-> "Refresh token required"]
  ELSE IF verifyRefreshToken(refresh_tokens, token, now) = NoRow
    THEN [status |-> 401, message |-> "Invalid or expired refresh token"]
  ELSE [status |-> 200, message |-> ""]

\* refreshAccessToken, lines 160-169, the token verifies
RefreshVerify(p) ==
  /\ proc[p].pc = "idle"
  /\ \E token \in RefreshInputs :
       /\ RefreshCheck(token).status = 200
       /\ Accept(p, [Call("refresh", NoEmail, "", token) EXCEPT
            !.pc = "refresh_user",
            !.user_id = verifyRefreshToken(refresh_tokens, token, now).user_id])
  /\ UNCHANGED <<db, outbox, now, counters, history>>

\* refreshAccessToken, lines 160-169, UnauthorizedError
RefreshRejected(p) ==
  /\ proc[p].pc = "idle"
  /\ \E token \in RefreshInputs :
       LET check == RefreshCheck(token) IN
       /\ check.status # 200
       /\ Reject(p, Fail(p, Call("refresh", NoEmail, "", token), check.status, check.message))
  /\ UNCHANGED <<db, outbox, now, counters, history>>

\* refreshAccessToken, lines 172-181: SELECT the user, reject a missing or inactive one
RefreshUser(p) ==
  /\ proc[p].pc = "refresh_user"
  /\ LET c == proc[p]
         rows == UserById(c.user_id) IN
     IF rows = {} \/ ~(CHOOSE u \in rows : TRUE).is_active
       THEN Complete(p, Fail(p, c, 401, "User not found or inactive"))
       ELSE Continue(p, [c EXCEPT !.pc = "refresh_rotate",
                                  !.email = (CHOOSE u \in rows : TRUE).email])
  /\ UNCHANGED <<db, outbox, now, counters, history>>

\* rotateRefreshToken, lines 116-126: verifyRefreshToken again; a plain Error if it fails
RefreshRotate(p) ==
  /\ proc[p].pc = "refresh_rotate"
  /\ LET c == proc[p]
         oldTokenData == verifyRefreshToken(refresh_tokens, c.token, now) IN
     IF oldTokenData = NoRow
       THEN Complete(p, Throw(p, c, "Invalid or expired refresh token"))
       ELSE Continue(p, [c EXCEPT !.pc = "refresh_tx", !.rec_id = oldTokenData.id])
  /\ UNCHANGED <<db, outbox, now, counters, history>>

\* rotateRefreshToken, lines 129-155, and refreshAccessToken, lines 190-202
RefreshTx(p) ==
  /\ proc[p].pc = "refresh_tx"
  /\ LET c == proc[p]
         newToken == RefreshTokenValue(nextRefresh)
         accessToken == generateAccessToken(c.user_id, c.email, "user", nextRefresh, now) IN
     /\ refresh_tokens' =
          rotateTransaction(refresh_tokens, c.rec_id, nextRefresh, newToken, c.user_id, ReqIp(p), now)
     /\ IssueRefresh(c.user_id, ReqIp(p), c.token)
     /\ rotated' = rotated \cup {c.token}
     /\ Complete(p, Return(p, c, "", NoEmail, accessToken, newToken))
  /\ UNCHANGED <<users, organizations, password_reset_tokens, outbox, now,
                 nextUserId, nextReset, consumed>>

\* logout, lines 208-215, with a token whose row revokeRefreshToken updates
Logout(p) ==
  /\ proc[p].pc = "idle"
  /\ \E token \in RefreshInputs :
       /\ token # EmptyToken
       /\ revokeTargets(refresh_tokens, token) # {}
       /\ refresh_tokens' = revokeRefreshToken(refresh_tokens, token, ReqIp(p), now)
       /\ quota > 0
       /\ quota' = quota - 1
       /\ proc' = proc
       /\ resp' = Return(p, Call("logout", NoEmail, "", token), "", NoEmail, NoAccess, EmptyToken)
  /\ UNCHANGED <<users, organizations, password_reset_tokens, outbox, now, counters, history>>

\* logout, lines 208-215, without a token or with one that matches no live row
LogoutNoop(p) ==
  /\ proc[p].pc = "idle"
  /\ \E token \in RefreshInputs :
       /\ token = EmptyToken \/ revokeTargets(refresh_tokens, token) = {}
       /\ refresh_tokens' = IF token = EmptyToken
                              THEN refresh_tokens
                              ELSE revokeRefreshToken(refresh_tokens, token, ReqIp(p), now)
       /\ Reject(p, Return(p, Call("logout", NoEmail, "", token), "", NoEmail, NoAccess, EmptyToken))
  /\ UNCHANGED <<users, organizations, password_reset_tokens, outbox, now, counters, history>>

\* a verification that also wants a refresh-token row of the user that is not revoked
verifyAccessTokenError_checksLedger(token, t) ==
  IF token.key # JwtSecret THEN "Invalid token"
  ELSE IF t >= token.exp THEN "Token expired"
  ELSE IF token.type # "access" THEN "Invalid token type"
  ELSE IF \A r \in refresh_tokens : r.user_id = token.sub => r.revoked_at # NULL THEN "Invalid token"
  ELSE ""

\* jwt.utils.js verifyAccessToken: the message of the error it throws, "" when
\* it returns the decoded claims; jwt.verify checks the signature, then exp
verifyAccessTokenError(token, t) ==
  IF token.key # JwtSecret THEN "Invalid token"
  ELSE IF t >= token.exp THEN "Token expired"
  ELSE IF token.type # "access" THEN "Invalid token type"
  ELSE ""

\* auth.middleware.js authRequired: the status and message it answers with
authRequired(token, t) ==
  IF token = NoAccess
    THEN [status |-> 401, message |-> "No authorization header provided"]
  ELSE IF verifyAccessTokenError(token, t) = ""
    THEN [status |-> 200, message |-> ""]
  ELSE IF verifyAccessTokenError(token, t) = "Token expired"
    THEN [status |-> 401, message |-> "Token expired. Please refresh."]
  ELSE [status |-> 401, message |-> "Invalid token"]

\* the access token signup, login or refreshAccessToken returned together with
\* the refresh token of history entry i
AccessTokenOf(i) ==
  generateAccessToken(i.user_id, (CHOOSE u \in users : u.id = i.user_id).email, "user",
                      i.token[2], i.expires_at - RefreshTokenExpiresDays)

\* what a client may send as Bearer token: nothing, an access token it was
\* given, or such a token signed with another key
BearerInputs ==
  {NoAccess} \cup {AccessTokenOf(i) : i \in issued}
             \cup {[AccessTokenOf(i) EXCEPT !.key = "forged"] : i \in issued}

\* auth.middleware.js authRequired, lines 11-51, in front of a protected route
AuthRequired(p) ==
  /\ proc[p].pc = "idle"
  /\ \E token \in BearerInputs :
       LET c == [Call("authRequired", token.email, "", EmptyToken) EXCEPT !.user_id = token.sub]
           a == authRequired(token, now) IN
       Reject(p, [Fail(p, c, a.status, a.message) EXCEPT !.bearer = token])
  /\ UNCHANGED <<db, outbox, now, counters, history>>

\* a message that tells the caller the address is unknown
ResetMessageNoUser_notFound == "No account with that email"

\* requestPasswordReset, line 230: the message when no active user has the address
ResetMessageNoUser == "If email exists, reset link will be sent"

\* requestPasswordReset, line 258: the message after the reset row is stored
ResetMessageSent == "If email exists, reset link will be sent"

\* requestPasswordReset, lines 222-225: the rows of the SELECT
ActiveUserByEmail(email) == {u \in UserByEmail(ToLowerCase(email)) : u.is_active}

\* requestPasswordReset, lines 222-233, an active user has the address
RequestResetSelect(p) ==
  /\ proc[p].pc = "idle"
  /\ \E email \in Emails :
       /\ ActiveUserByEmail(email) # {}
       /\ Accept(p, [Call("requestPasswordReset", email, "", EmptyToken) EXCEPT
            !.pc = "reqreset_insert",
            !.user_id = (CHOOSE u \in ActiveUserByEmail(email) : TRUE).id])
  /\ UNCHANGED <<db, outbox, now, counters, history>>

\* requestPasswordReset storing a reset row and sending the e-mail although
\* no active user has the address
RequestResetNoUser_storesRow(p) ==
  /\ proc[p].pc = "idle"
  /\ \E email \in Emails :
       /\ ActiveUserByEmail(email) = {}
       /\ password_reset_tokens' = password_reset_tokens \cup
            {[id |-> nextReset, user_id |-> NULL,
              token_hash |-> hashToken(ResetTokenValue(nextReset)),
              expires_at |-> now + ResetTokenExpiry, used_at |-> NULL,
              created_by_ip |-> ReqIp(p)]}
       /\ outbox' = outbox \cup
            {[kind |-> "password_reset", to |-> ToLowerCase(email),
              token |-> ResetTokenValue(nextReset)]}
       /\ Reject(p, Return(p, Call("requestPasswordReset", email, "", EmptyToken),
                           ResetMessageNoUser, NoEmail, NoAccess, EmptyToken))
  /\ UNCHANGED <<users, organizations, refresh_tokens, now, counters, history>>

\* requestPasswordReset, lines 227-231, no active user has the address
RequestResetNoUser(p) ==
  /\ proc[p].pc = "idle"
  /\ \E email \in Emails :
       /\ ActiveUserByEmail(email) = {}
       /\ Reject(p, Return(p, Call("requestPasswordReset", email, "", EmptyToken),
                           ResetMessageNoUser, NoEmail, NoAccess, EmptyToken))
  /\ UNCHANGED <<db, outbox, now, counters, history>>

\* requestPasswordReset, lines 236-258: INSERT the reset row, send the e-mail
RequestResetInsert(p) ==
  /\ proc[p].pc = "reqreset_insert"
  /\ LET c == proc[p]
         resetToken == ResetTokenValue(nextReset) IN
     /\ password_reset_tokens' = password_reset_tokens \cup
          {[id |-> nextReset, user_id |-> c.user_id, token_hash |-> hashToken(resetToken),
            expires_at |-> now + ResetTokenExpiry, used_at |-> NULL,
            created_by_ip |-> ReqIp(p)]}
     /\ nextReset' = nextReset + 1
     /\ outbox' = outbox \cup
          {[kind |-> "password_reset", to |-> ToLowerCase(c.email), token |-> resetToken]}
     /\ Complete(p, Return(p, c, ResetMessageSent, NoEmail, NoAccess, EmptyToken))
  /\ UNCHANGED <<users, organizations, refresh_tokens, now, nextUserId, nextRefresh, history>>

\* resetPassword testing the expiry before used_at
ResetCheck_expiryFirst(rows, token, t) ==
  LET found == {r \in rows : r.token_hash = hashToken(token)} IN
  IF found = {}
    THEN [status |-> 400, message |-> "Invalid or expired reset token"]
  ELSE LET resetData == CHOOSE r \in found : TRUE IN
    IF resetData.expires_at < t
      THEN [status |-> 400, message |-> "Reset token expired"]
    ELSE IF resetData.used_at # NULL
      THEN [status |-> 400, message |-> "Reset token already used"]
    ELSE [status |-> 200, message |-> ""]

\* resetPassword, lines 265-289: what the SELECT and the checks decide
ResetCheck(rows, token, t) ==
  LET found == {r \in rows : r.token_hash = hashToken(token)} IN
  IF found = {}
    THEN [status |-> 400, message |-> "Invalid or expired reset token"]
  ELSE LET resetData == CHOOSE r \in found : TRUE IN
    IF resetData.used_at # NULL
      THEN [status |-> 400, message |-> "Reset token already used"]
    ELSE IF resetData.expires_at < t
      THEN [status |-> 400, message |-> "Reset token expired"]
    ELSE [status |-> 200, message |-> ""]

\* resetPassword, lines 265-292, including hashPassword
ResetCheckResult(token, newPassword) ==
  LET check == ResetCheck(password_reset_tokens, token, now) IN
  IF check.status # 200 THEN check
  ELSE IF hashPasswordThrows(newPassword)
    THEN [status |-> 500, message |-> "Password must be at least 8 characters"]
  ELSE check

\* resetPassword, lines 265-292, the call goes on to the transaction
ResetSelect(p) ==
  /\ proc[p].pc = "idle"
  /\ \E token \in ResetInputs, newPassword \in Passwords :
       /\ ResetCheckResult(token, newPassword).status = 200
       /\ LET resetData == CHOOSE r \in password_reset_tokens :
                             r.token_hash = hashToken(token) IN
          Accept(p, [Call("resetPassword", NoEmail, newPassword, token) EXCEPT
            !.pc = "reset_tx", !.user_id = resetData.user_id,
            !.rec_id = resetData.id, !.hash = BcryptHash(newPassword)])
  /\ UNCHANGED <<db, outbox, now, counters, history>>

\* resetPassword, lines 275-292, one of the errors
ResetRejected(p) ==
  /\ proc[p].pc = "idle"
  /\ \E token \in ResetInputs, newPassword \in Passwords :
       LET check == ResetCheckResult(token, newPassword) IN
       /\ check.status # 200
       /\ Reject(p, Fail(p, Call("resetPassword", NoEmail, newPassword, token),
                         check.status, check.message))
  /\ UNCHANGED <<db, outbox, now, counters, history>>

\* the transaction marking the reset row used without updating the password hash
ResetTx_keepsHash(p) ==
  /\ proc[p].pc = "reset_tx"
  /\ LET c == proc[p] IN
     /\ users' = users
     /\ password_reset_tokens' =
          {IF r.id = c.rec_id THEN [r EXCEPT !.used_at = now] ELSE r : r \in password_reset_tokens}
     /\ consumed' = consumed \cup {[token |-> c.token, by |-> p]}
     /\ Continue(p, [c EXCEPT !.pc = "reset_revoke"])
  /\ UNCHANGED <<organizations, refresh_tokens, outbox, now, counters, issued, rotated>>

\* the transaction marking every reset row of the user used
ResetTx_usesAllOfUser(p) ==
  /\ proc[p].pc = "reset_tx"
  /\ LET c == proc[p] IN
     /\ users' = {IF u.id = c.user_id THEN [u EXCEPT !.password_hash = c.hash] ELSE u : u \in users}
     /\ password_reset_tokens' =
          {IF r.user_id = c.user_id THEN [r EXCEPT !.used_at = now] ELSE r : r \in password_reset_tokens}
     /\ consumed' = consumed \cup {[token |-> c.token, by |-> p]}
     /\ Continue(p, [c EXCEPT !.pc = "reset_revoke"])
  /\ UNCHANGED <<organizations, refresh_tokens, outbox, now, counters, issued, rotated>>

\* resetPassword, lines 295-307: the transaction updating the password hash
\* and marking the reset row used
ResetTx(p) ==
  /\ proc[p].pc = "reset_tx"
  /\ LET c == proc[p] IN
     /\ users' = {IF u.id = c.user_id THEN [u EXCEPT !.password_hash = c.hash] ELSE u : u \in users}
     /\ password_reset_tokens' =
          {IF r.id = c.rec_id THEN [r EXCEPT !.used_at = now] ELSE r : r \in password_reset_tokens}
     /\ consumed' = consumed \cup {[token |-> c.token, by |-> p]}
     /\ Continue(p, [c EXCEPT !.pc = "reset_revoke"])
  /\ UNCHANGED <<organizations, refresh_tokens, outbox, now, counters, issued, rotated>>

\* resetPassword, lines 310-314: revokeAllUserTokens, result
ResetRevoke(p) ==
  /\ proc[p].pc = "reset_revoke"
  /\ refresh_tokens' = revokeAllUserTokens(refresh_tokens, proc[p].user_id, now)
  /\ Complete(p, Return(p, proc[p], "Password reset successful", NoEmail, NoAccess, EmptyToken))
  /\ UNCHANGED <<users, organizations, password_reset_tokens, outbox, now, counters, history>>

\* changePassword, lines 354-370: what the SELECT, comparePassword and hashPassword decide
ChangePasswordCheck(userId, currentPassword, newPassword) ==
  LET rows == UserById(userId) IN
  IF rows = {}
    THEN [status |-> 404, message |-> "User not found"]
  ELSE IF ~comparePassword(currentPassword, (CHOOSE u \in rows : TRUE).password_hash)
    THEN [status |-> 400, message |-> "Current password is incorrect"]
  ELSE IF hashPasswordThrows(newPassword)
    THEN [status |-> 500, message |-> "Password must be at least 8 characters"]
  ELSE [status |-> 200, message |-> ""]

\* changePassword, lines 354-370, the call goes on to the update
ChangePasswordSelect(p) ==
  /\ proc[p].pc = "idle"
  /\ \E userId \in 1..nextUserId, currentPassword \in Passwords, newPassword \in Passwords :
       /\ ChangePasswordCheck(userId, currentPassword, newPassword).status = 200
       /\ Accept(p, [Call("changePassword", NoEmail, currentPassword, EmptyToken) EXCEPT
            !.pc = "chpw_update", !.user_id = userId, !.hash = BcryptHash(newPassword)])
  /\ UNCHANGED <<db, outbox, now, counters, history>>

\* changePassword, lines 359-370, one of the errors
ChangePasswordRejected(p) ==
  /\ proc[p].pc = "idle"
  /\ \E userId \in 1..nextUserId, currentPassword \in Passwords, newPassword \in Passwords :
       LET check == ChangePasswordCheck(userId, currentPassword, newPassword) IN
       /\ check.status # 200
       /\ Reject(p, Fail(p, [Call("changePassword", NoEmail, currentPassword, EmptyToken)
                               EXCEPT !.user_id = userId], check.status, check.message))
  /\ UNCHANGED <<db, outbox, now, counters, history>>

\* changePassword, lines 372-375: UPDATE users SET password_hash
ChangePasswordUpdate(p) ==
  /\ proc[p].pc = "chpw_update"
  /\ LET c == proc[p] IN
     /\ users' = {IF u.id = c.user_id THEN [u EXCEPT !.password_hash = c.hash] ELSE u : u \in users}
     /\ Continue(p, [c EXCEPT !.pc = "chpw_revoke"])
  /\ UNCHANGED <<organizations, refresh_tokens, password_reset_tokens, outbox, now,
                 counters, history>>

\* changePassword, lines 378-382: revokeAllUserTokens, result
ChangePasswordRevoke(p) ==
  /\ proc[p].pc = "chpw_revoke"
  /\ refresh_tokens' = revokeAllUserTokens(refresh_tokens, proc[p].user_id, now)
  /\ Complete(p, Return(p, proc[p], "Password changed successfully", NoEmail, NoAccess, EmptyToken))
  /\ UNCHANGED <<users, organizations, password_reset_tokens, outbox, now, counters, history>>

----------------------------------------------------------------------------
(* Environment: the clock, the periodic jobs, the administrator *)

\* the clock advances
Tick ==
  /\ now < MaxTime
  /\ now' = now + 1
  /\ resp' = NoResp
  /\ UNCHANGED <<db, outbox, counters, proc, quota, history>>

\* tokens.utils.js cleanupExpiredTokens(daysOld), run periodically
CleanupExpiredTokens ==
  /\ refresh_tokens' = cleanupExpiredTokens(refresh_tokens, RefreshRetentionDays, now)
  /\ refresh_tokens' # refresh_tokens
  /\ resp' = NoResp
  /\ UNCHANGED <<users, organizations, password_reset_tokens, outbox, now, counters,
                 proc, quota, history>>

\* migration 017: the rows of password_reset_tokens cleanup_expired_tokens keeps
cleanupResetTokens(rows, t) ==
  {r \in rows : ~(r.expires_at < t - ResetRetentionDays \/ r.used_at # NULL)}

\* migration 017: SELECT cleanup_expired_tokens(), run by cron
cleanup_expired_tokens ==
  /\ refresh_tokens' = cleanupExpiredTokens(refresh_tokens, RefreshRetentionDays, now)
  /\ password_reset_tokens' = cleanupResetTokens(password_reset_tokens, now)
  /\ <<refresh_tokens, password_reset_tokens>>' # <<refresh_tokens, password_reset_tokens>>
  /\ resp' = NoResp
  /\ UNCHANGED <<users, organizations, outbox, now, counters, proc, quota, history>>

\* an account is deactivated (soft delete): users.is_active becomes false
DeactivateUser ==
  /\ \A p \in Procs : proc[p].pc = "idle"
  /\ \E u \in users :
       /\ u.is_active
       /\ users' = (users \ {u}) \cup {[u EXCEPT !.is_active = FALSE]}
  /\ quota > 0
  /\ quota' = quota - 1
  /\ resp' = NoResp
  /\ UNCHANGED <<organizations, refresh_tokens, password_reset_tokens, outbox, now,
                 counters, proc, history>>

----------------------------------------------------------------------------
(* Specifications *)

\* one statement of a call of handler p that got past its first checks
Step(p) ==
  \/ SignupCheck(p)
  \/ SignupTx(p)
  \/ SignupStore(p)
  \/ LoginSelect(p)
  \/ LoginUpdate(p)
  \/ LoginStore(p)
  \/ RefreshVerify(p)
  \/ RefreshUser(p)
  \/ RefreshRotate(p)
  \/ RefreshTx(p)
  \/ Logout(p)
  \/ RequestResetSelect(p)
  \/ RequestResetInsert(p)
  \/ ResetSelect(p)
  \/ ResetTx(p)
  \/ ResetRevoke(p)
  \/ ChangePasswordSelect(p)
  \/ ChangePasswordUpdate(p)
  \/ ChangePasswordRevoke(p)

\* a call of handler p that its first checks answer, leaving the tables alone
Rejected(p) ==
  \/ SignupRejected(p)
  \/ LoginRejected(p)
  \/ RefreshRejected(p)
  \/ LogoutNoop(p)
  \/ RequestResetNoUser(p)
  \/ ResetRejected(p)
  \/ ChangePasswordRejected(p)

\* calls made one after the other by one client; accounts may be deactivated
Next ==
  \/ \E p \in SeqProcs : Step(p)
  \/ \E p \in SeqProcs : Rejected(p)
  \/ DeactivateUser

Spec == Init /\ [][Next]_vars

\* the state after signup(a@x, Passw0rd1) and requestPasswordReset(a@x) of
\* client p1 at time 1: one account, one session, one pending reset
Seeded(calls) ==
  /\ users = {[id |-> 1, email |-> <<"a", "@", "x">>,
               password_hash |-> BcryptHash("Passw0rd1"), role |-> "user", is_active |-> TRUE]}
  /\ organizations = {[id |-> 1, owner_id |-> 1]}
  /\ refresh_tokens = {RefreshRow(1, RefreshTokenValue(1), 1, ReqIp("p1"), 1)}
  /\ password_reset_tokens =
       {[id |-> 1, user_id |-> 1, token_hash |-> hashToken(ResetTokenValue(1)),
         expires_at |-> 1 + ResetTokenExpiry, used_at |-> NULL, created_by_ip |-> ReqIp("p1")]}
  /\ outbox = {[kind |-> "welcome", to |-> <<"a", "@", "x">>, token |-> EmptyToken],
               [kind |-> "password_reset", to |-> <<"a", "@", "x">>, token |-> ResetTokenValue(1)]}
  /\ now = 1
  /\ nextUserId = 2
  /\ nextRefresh = 2
  /\ nextReset = 2
  /\ proc = [p \in Procs |-> Idle]
  /\ quota = calls
  /\ resp = NoResp
  /\ issued = {[token |-> RefreshTokenValue(1), user_id |-> 1,
                expires_at |-> getRefreshTokenExpiry(1), from |-> EmptyToken]}
  /\ rotated = {}
  /\ consumed = {}

\* calls made one after the other while the clock runs and the cleanup jobs run
InitTime == Seeded(MaxCallsTime)

NextTime ==
  \/ \E p \in SeqProcs : Step(p)
  \/ \E p \in SeqProcs : RefreshRejected(p)
  \/ \E p \in SeqProcs : ResetRejected(p)
  \/ Tick
  \/ CleanupExpiredTokens
  \/ cleanup_expired_tokens

SpecTime == InitTime /\ [][NextTime]_vars

\* overlapping calls of two clients
InitConc == Seeded(MaxCallsConc)

NextConc == \E p \in Procs : Step(p)

SpecConc == InitConc /\ [][NextConc]_vars

\* a failing organization INSERT that leaves the user row of the same call behind
SignupTxFails_keepsUser(p) ==
  /\ proc[p].pc = "signup_tx"
  /\ usersEmailUnique(users, ToLowerCase(proc[p].email))
  /\ users' = users \cup
       {[id |-> nextUserId, email |-> ToLowerCase(proc[p].email), password_hash |-> proc[p].hash,
         role |-> "user", is_active |-> TRUE]}
  /\ nextUserId' = nextUserId + 1
  /\ Complete(p, Throw(p, proc[p], "insert into organizations failed"))
  /\ UNCHANGED <<organizations, refresh_tokens, password_reset_tokens, outbox, now,
                 nextRefresh, nextReset, history>>

\* signup, lines 40-62 with db.js transaction, lines 35-48: the INSERT INTO
\* organizations fails (slug is UNIQUE and VARCHAR(50)), ROLLBACK, the error
\* is thrown on
SignupTxFails(p) ==
  /\ proc[p].pc = "signup_tx"
  /\ usersEmailUnique(users, ToLowerCase(proc[p].email))
  /\ Complete(p, Throw(p, proc[p], "insert into organizations failed"))
  /\ UNCHANGED <<db, outbox, now, counters, history>>

\* a failing INSERT of the new row that leaves the UPDATE of the old row behind
RotateTxFails_keepsRevoke(p) ==
  /\ proc[p].pc = "refresh_tx"
  /\ refresh_tokens' =
       {IF r.id = proc[p].rec_id
          THEN [r EXCEPT !.revoked_at = now, !.revoked_by_ip = ReqIp(p),
                         !.replaced_by_token = nextRefresh]
          ELSE r : r \in refresh_tokens}
  /\ Complete(p, Throw(p, proc[p], "insert into refresh_tokens failed"))
  /\ UNCHANGED <<users, organizations, password_reset_tokens, outbox, now, counters, history>>

\* rotateRefreshToken, lines 129-150 with db.js transaction, lines 35-48: a
\* statement of the transaction fails, ROLLBACK, the error is thrown on
RotateTxFails(p) ==
  /\ proc[p].pc = "refresh_tx"
  /\ Complete(p, Throw(p, proc[p], "insert into refresh_tokens failed"))
  /\ UNCHANGED <<db, outbox, now, counters, history>>

\* a failing revoke step that takes the used mark of the reset row back
ResetRevokeFails_unmarksRow(p) ==
  /\ proc[p].pc = "reset_revoke"
  /\ password_reset_tokens' =
       {IF r.id = proc[p].rec_id THEN [r EXCEPT !.used_at = NULL] ELSE r
          : r \in password_reset_tokens}
  /\ Complete(p, Throw(p, proc[p], "update refresh_tokens failed"))
  /\ UNCHANGED <<users, organizations, refresh_tokens, outbox, now, counters, history>>

\* resetPassword, line 310, after the transaction of lines 295-307 has
\* committed: the UPDATE of revokeAllUserTokens fails and db.js query throws
ResetRevokeFails(p) ==
  /\ proc[p].pc = "reset_revoke"
  /\ Complete(p, Throw(p, proc[p], "update refresh_tokens failed"))
  /\ UNCHANGED <<db, outbox, now, counters, history>>

\* overlapping calls of two clients, with statements that may fail
InitFault == Seeded(MaxCallsConc)

NextFault ==
  \E p \in Procs :
    \/ Step(p)
    \/ SignupTxFails(p)
    \/ RotateTxFails(p)
    \/ ResetRevokeFails(p)

SpecFault == InitFault /\ [][NextFault]_vars

\* the sessions of one client while the clock runs: logins, logouts, password
\* resets and password changes, one call after the other
InitSession == Seeded(MaxCallsTime)

NextSession ==
  \/ \E p \in SeqProcs :
       \/ LoginSelect(p) \/ LoginUpdate(p) \/ LoginStore(p)
       \/ Logout(p) \/ LogoutNoop(p)
       \/ ResetSelect(p) \/ ResetTx(p) \/ ResetRevoke(p)
       \/ ChangePasswordSelect(p) \/ ChangePasswordUpdate(p) \/ ChangePasswordRevoke(p)
       \/ AuthRequired(p)
  \/ Tick

SpecSession == InitSession /\ [][NextSession]_vars

----------------------------------------------------------------------------
(* Properties *)

\* handler p starts a call of operation op in this step: it was idle and is
\* now either past the first checks or answered by them
StartsCall(p, op) ==
  /\ proc[p].pc = "idle"
  /\ \/ proc'[p].pc # "idle" /\ proc'[p].op = op
     \/ proc'[p] = proc[p] /\ resp' # resp /\ resp'.proc = p /\ resp'.op = op

\* the token a call of handler p presents, when StartsCall(p, op) holds
PresentedToken(p) == IF proc'[p].pc # "idle" THEN proc'[p].token ELSE resp'.token

\* the refresh-token row stored for a token value, if any
RowsOfToken(token) == {r \in refresh_tokens : r.token_hash = hashToken(token)}

\* C1: once the rotation of a refresh token t has committed, verifyRefreshToken(t)
\* is null in every later state and every refreshAccessToken(t) call that starts
\* later is answered 401, while the token the rotation returned verifies unless
\* its row is revoked (rotated, logged out, revoked with all) or it has expired.
C1_RotatedTokenNeverValidAgain ==
  [][ /\ \A t \in rotated' :
           verifyRefreshToken(refresh_tokens', t, now') = NoRow
      /\ \A p \in Procs :
           (StartsCall(p, "refresh") /\ PresentedToken(p) \in rotated)
             => (proc'[p].pc = "idle" /\ resp'.status = 401)
      /\ \A i \in issued' :
           i.from # EmptyToken =>
             \/ verifyRefreshToken(refresh_tokens', i.token, now') # NoRow
             \/ i.token \in rotated'
             \/ \E r \in refresh_tokens' :
                  r.token_hash = hashToken(i.token) /\ r.revoked_at # NULL
             \/ i.expires_at < now'
    ]_vars

\* C1 witness: a replayed rotated token has just been answered 401 while the
\* token its rotation returned still verifies
C1_Witness ==
  /\ resp.op = "refresh" /\ resp.status = 401 /\ resp.token \in rotated
  /\ \E i \in issued :
       i.from = resp.token /\ verifyRefreshToken(refresh_tokens, i.token, now) # NoRow

\* C2: of two refreshAccessToken calls presenting the same live token exactly one
\* succeeds and creates a successor row; the other is answered 401 and creates
\* none: no token ever has two successors, and a call that loses to a committed
\* rotation of its token is answered 401.
C2_ExactlyOneRotationWins ==
  /\ \A i, j \in issued : (i.from # EmptyToken /\ i.from = j.from) => i = j
  /\ (resp.op = "refresh" /\ resp.token \in rotated /\ resp.status # 200)
       => resp.status = 401

\* the reset tokens some resetPassword call has consumed
ConsumedTokens == {c.token : c \in consumed}

\* C3: at most one resetPassword call presenting a reset token r succeeds: the
\* transaction never runs for a token already consumed, and a call presenting r
\* after a successful one is answered 400 'Reset token already used' and leaves
\* the users table unchanged.
C3_ResetTokenSingleUse ==
  [][ \A p \in Procs :
        /\ (proc[p].pc = "reset_tx" /\ proc'[p].pc = "reset_revoke")
             => proc[p].token \notin ConsumedTokens
        /\ (StartsCall(p, "resetPassword") /\ PresentedToken(p) \in ConsumedTokens)
             => /\ proc'[p].pc = "idle"
                /\ resp'.status = 400
                /\ resp'.message = "Reset token already used"
                /\ users' = users
    ]_vars

\* C4: of two resetPassword calls presenting the same unused, unexpired token at
\* most one updates the password hash: no token is consumed by two calls.
C4_OneResetPerToken ==
  \A a, b \in consumed : a.token = b.token => a = b

\* handler p completes a resetPassword call successfully in this step
ResetSucceeds(p) ==
  proc[p].pc = "reset_revoke" /\ proc'[p].pc = "idle" /\ resp'.status = 200

RevokeAllCompletes(p) ==
  proc[p].pc \in {"reset_revoke", "chpw_revoke"} /\ proc'[p].pc = "idle"

\* C6: when revokeAllUserTokens(userId) completes within changePassword or
\* resetPassword, every refresh token stored for that user before the call fails
\* refreshAccessToken with 401 and the rows of other users are unchanged.
C6_RevokeAllRevokesExactlyTheUsersTokens ==
  [][ \A p \in Procs :
        RevokeAllCompletes(p)
          => /\ \A r \in refresh_tokens :
                  r.user_id = proc[p].user_id => RefreshCheck(r.token)'.status = 401
             /\ {r \in refresh_tokens' : r.user_id # proc[p].user_id}
                  = {r \in refresh_tokens : r.user_id # proc[p].user_id}
    ]_vars

\* C6 witness: a password change has just revoked the tokens of its user while
\* another user holds a token that still verifies
C6_Witness ==
  /\ resp.op = "changePassword" /\ resp.status = 200
  /\ \E r \in refresh_tokens : r.user_id = resp.user_id /\ r.revoked_at = now
  /\ \E r \in refresh_tokens :
       /\ r.user_id # resp.user_id
       /\ verifyRefreshToken(refresh_tokens, r.token, now) # NoRow

\* the addresses no user row has
UnregisteredEmails == {e \in Emails : UserByEmail(ToLowerCase(e)) = {}}

\* the answer login gives to an address nobody registered
UnknownEmailAnswer == [status |-> 401, message |-> "Invalid email or password"]

\* C7: login with a registered email and a wrong password and login with a
\* non-existent email produce the identical error type and message, for every
\* state of the registered account.
C7_LoginErrorsIdentical ==
  /\ \A u \in users, pw \in Passwords, e \in UnregisteredEmails :
       ~comparePassword(pw, u.password_hash)
         => LoginCheck(u.email, pw) = LoginCheck(e, pw)
  /\ \A u \in users :
       ( /\ resp.op = "login" /\ resp.status # 200
         /\ ToLowerCase(resp.email) = u.email
         /\ ~comparePassword(resp.password, u.password_hash) )
         => (resp.status = 401 /\ resp.message = UnknownEmailAnswer.message)

\* C7 as amended: for every active registered account, login with a wrong
\* password and login with a non-existent email produce the identical error type
\* and message (401 'Invalid email or password'); for a deactivated account login
\* fails with 403 'Account is disabled' whatever the password.
C7_LoginErrorsIdenticalWhileActive ==
  /\ \A e \in UnregisteredEmails, pw \in Passwords : LoginCheck(e, pw) = UnknownEmailAnswer
  /\ \A u \in users, pw \in Passwords :
       /\ (u.is_active /\ ~comparePassword(pw, u.password_hash))
            => LoginCheck(u.email, pw) = UnknownEmailAnswer
       /\ ~u.is_active
            => LoginCheck(u.email, pw) = [status |-> 403, message |-> "Account is disabled"]
  /\ (resp.op = "login" /\ resp.status # 200)
       => IF \E u \in users : u.email = ToLowerCase(resp.email) /\ ~u.is_active
            THEN resp.status = 403 /\ resp.message = "Account is disabled"
            ELSE resp.status = 401 /\ resp.message = UnknownEmailAnswer.message

\* C7 witness: a login with a wrong password for an active registered account
\* has just been rejected while some address is not registered
C7_Witness ==
  /\ resp.op = "login" /\ resp.status = 401
  /\ \E u \in users :
       /\ u.email = ToLowerCase(resp.email) /\ u.is_active
       /\ ~comparePassword(resp.password, u.password_hash)
  /\ UnregisteredEmails # {}

\* C8: requestPasswordReset returns the same generic message, 'If email exists,
\* reset link will be sent', for every email, whether or not a user has it.
C8_ResetRequestMessageGeneric ==
  /\ ResetMessageNoUser = ResetMessageSent
  /\ resp.op = "requestPasswordReset"
       => (resp.status = 200 /\ resp.message = "If email exists, reset link will be sent")

\* C8 witness: a request for an address without user has just been answered
\* after a request for a registered address was answered and its e-mail sent
C8_Witness ==
  /\ resp.op = "requestPasswordReset"
  /\ UserByEmail(ToLowerCase(resp.email)) = {}
  /\ \E m \in outbox : m.kind = "password_reset"

\* the address a call of handler p presents, when StartsCall(p, op) holds
PresentedEmail(p) == IF proc'[p].pc # "idle" THEN proc'[p].email ELSE resp'.email

\* C9: requestPasswordReset for an email with no matching user returns at once,
\* inserts no password-reset row and sends no e-mail; users, refresh tokens and
\* the existing reset rows are unchanged.
C9_ResetRequestForUnknownEmailChangesNothing ==
  [][ \A p \in Procs :
        ( /\ StartsCall(p, "requestPasswordReset")
          /\ ActiveUserByEmail(PresentedEmail(p)) = {} )
          => /\ proc'[p].pc = "idle"
             /\ resp'.status = 200
             /\ password_reset_tokens' = password_reset_tokens
             /\ outbox' = outbox
             /\ users' = users
             /\ refresh_tokens' = refresh_tokens
             /\ organizations' = organizations
    ]_vars

\* C9 witness: a request for an address without user has been answered and no
\* reset row or reset e-mail exists although a user is registered
C9_Witness ==
  /\ resp.op = "requestPasswordReset" /\ resp.status = 200
  /\ UserByEmail(ToLowerCase(resp.email)) = {}
  /\ users # {}
  /\ password_reset_tokens = {}
  /\ \A m \in outbox : m.kind # "password_reset"

\* the refresh tokens handed out so far
IssuedTokens == {i.token : i \in issued}

\* C10: for every valid (email, password), once signup has succeeded a login
\* with the same credentials passes the checks of login, and the login returns
\* the user signup created, with the email signup stored, a refresh token never
\* handed out before that verifies, and an access token for that user.
C10_SignupThenLoginSucceeds ==
  [][ \A p \in Procs :
        /\ (proc[p].pc = "signup_store" /\ proc'[p].pc = "idle" /\ resp'.status = 200)
             => /\ \A email \in {proc[p].email}, password \in {proc[p].password} :
                     LoginCheck(email, password)' = [status |-> 200, message |-> ""]
                /\ \E u \in users' :
                     u.id = proc[p].user_id /\ u.email = resp'.out_email
        /\ (proc[p].pc = "login_store" /\ proc'[p].pc = "idle")
             => /\ resp'.status = 200
                /\ \E u \in users :
                     /\ u.id = proc[p].user_id
                     /\ u.email = ToLowerCase(proc[p].email)
                     /\ resp'.out_email = u.email
                     /\ resp'.out_access.sub = u.id
                     /\ resp'.out_access.email = u.email
                /\ resp'.out_access.type = "access"
                /\ resp'.out_token \notin IssuedTokens
                /\ verifyRefreshToken(refresh_tokens', resp'.out_token, now') # NoRow
    ]_vars

\* C10 witness: a login with the credentials of a signup, typed with a capital
\* letter, has just returned the lower-case address and a second token pair
C10_Witness ==
  /\ resp.op = "login" /\ resp.status = 200
  /\ resp.email # resp.out_email
  /\ \E i \in issued : i.user_id = resp.user_id /\ i.token # resp.out_token
  /\ verifyRefreshToken(refresh_tokens, resp.out_token, now) # NoRow

\* C11: signup with an email that equals a registered one under case-insensitive
\* comparison is answered 409 'Email already registered' at once and creates no
\* user, organization or refresh-token row.
C11_DuplicateSignupConflicts ==
  [][ \A p \in Procs :
        ( /\ StartsCall(p, "signup")
          /\ \E u \in users : ToLowerCase(u.email) = ToLowerCase(PresentedEmail(p)) )
          => /\ proc'[p].pc = "idle"
             /\ resp'.status = 409
             /\ resp'.message = "Email already registered"
             /\ users' = users
             /\ organizations' = organizations
             /\ refresh_tokens' = refresh_tokens
    ]_vars

\* C11 witness: a signup typing a registered address with a capital letter has
\* just been answered 409
C11_Witness ==
  /\ resp.op = "signup" /\ resp.status = 409
  /\ resp.email \notin {u.email : u \in users}
  /\ ToLowerCase(resp.email) \in {u.email : u \in users}

\* C12: in every reachable state, also while signup calls for the same address
\* overlap, no two user rows have the same email under case-insensitive comparison.
C12_EmailUnique ==
  \A u, v \in users : ToLowerCase(u.email) = ToLowerCase(v.email) => u = v

\* C12 witness: of two overlapping signups for one address the second transaction
\* has just been aborted by the UNIQUE constraint
C12_Witness ==
  /\ resp.op = "signup" /\ resp.status = 500
  /\ resp.message = "duplicate key value violates unique constraint"
  /\ \E u \in users : u.email = ToLowerCase(resp.email)

\* C13: in every reachable state no refresh-token row holds the plaintext value
\* of a token handed out in any column; only its SHA-256 hash is stored.
C13_NoPlaintextTokenStored ==
  \A r \in refresh_tokens : r.token \notin IssuedTokens

\* C14: logout never raises an error; for a missing, unknown or already-revoked
\* token it changes no row; for a live token it revokes exactly the row of that
\* token, after which refreshAccessToken with it is answered 401.
C14_LogoutIdempotent ==
  [][ \A p \in Procs :
        StartsCall(p, "logout")
          => /\ proc'[p].pc = "idle"
             /\ resp'.status = 200
             /\ UNCHANGED <<users, organizations, password_reset_tokens, outbox>>
             /\ \A token \in {resp'.token} :
                  IF verifyRefreshToken(refresh_tokens, token, now) = NoRow
                    THEN refresh_tokens' = refresh_tokens
                    ELSE /\ \A r \in refresh_tokens :
                              r.token_hash # hashToken(token) => r \in refresh_tokens'
                         /\ \A r \in refresh_tokens' :
                              IF r.token_hash = hashToken(token)
                                THEN r.revoked_at # NULL
                                ELSE r \in refresh_tokens
                         /\ RefreshCheck(token)'.status = 401
    ]_vars

\* C14 witness: a logout has just revoked the row of its token while another
\* session of the same user is still live
C14_Witness ==
  /\ resp.op = "logout" /\ resp.status = 200
  /\ \E r, q \in refresh_tokens :
       /\ r.token_hash = hashToken(resp.token) /\ r.revoked_at # NULL
       /\ q.user_id = r.user_id /\ q.revoked_at = NULL

\* handler p ends a refreshAccessToken call with an error in this step
RefreshFails(p) ==
  /\ resp' # resp
  /\ resp'.proc = p /\ resp'.op = "refresh" /\ resp'.status # 200
  /\ proc'[p].pc = "idle"

\* C15: refreshAccessToken fails with 401 when the presented token cannot be
\* verified, when the owning user no longer exists and when the owning user is
\* inactive; no failing call rotates the token or creates a refresh-token row.
C15_RefreshFailuresUnauthorized ==
  [][ \A p \in Procs :
        /\ ( /\ StartsCall(p, "refresh")
             /\ \A token \in {PresentedToken(p)} :
                  verifyRefreshToken(refresh_tokens, token, now) = NoRow )
             => RefreshFails(p)
        /\ ( /\ proc[p].pc = "refresh_user"
             /\ proc'[p] # proc[p]
             /\ \A u \in UserById(proc[p].user_id) : ~u.is_active )
             => RefreshFails(p)
        /\ ( /\ proc[p].pc = "refresh_rotate"
             /\ proc'[p] # proc[p]
             /\ verifyRefreshToken(refresh_tokens, proc[p].token, now) = NoRow )
             => RefreshFails(p)
        /\ RefreshFails(p)
             => /\ resp'.status = 401
                /\ refresh_tokens' = refresh_tokens
                /\ rotated' = rotated
                /\ issued' = issued
    ]_vars

\* C16: a refresh token presented at the instant now = expires_at is expired:
\* verifyRefreshToken returns null whenever now >= expires_at.
C16_RefreshExpiryInclusive ==
  \A r \in refresh_tokens :
    now >= r.expires_at => verifyRefreshToken(refresh_tokens, r.token, now) = NoRow

\* the reset row stored for a token value, if any
ResetRowsOfToken(token) == {r \in password_reset_tokens : r.token_hash = hashToken(token)}

\* C17: a password-reset token presented at or after its expiry (now >=
\* expires_at, the boundary included) is rejected and the password is unchanged.
C17_ResetExpiryInclusive ==
  [][ \A p \in Procs :
        ( /\ StartsCall(p, "resetPassword")
          /\ \E r \in ResetRowsOfToken(PresentedToken(p)) : now >= r.expires_at )
          => /\ proc'[p].pc = "idle"
             /\ resp'.status # 200
             /\ users' = users
    ]_vars

\* the call of handler p that starts in this step is answered with this error
AnsweredWith(p, status, message) ==
  proc'[p].pc = "idle" /\ resp'.status = status /\ resp'.message = message

\* C18: resetPassword distinguishes its failures: 'Invalid or expired reset
\* token' when no row matches the hash, 'Reset token already used' when used_at
\* is set (also for an expired row), 'Reset token expired' when an unused row is
\* past expiry; a failing call changes no user, reset or refresh-token row.
C18_ResetFailureKinds ==
  [][ \A p \in Procs :
        StartsCall(p, "resetPassword")
          => \A token \in {PresentedToken(p)} :
               /\ ResetRowsOfToken(token) = {}
                    => AnsweredWith(p, 400, "Invalid or expired reset token")
               /\ \A r \in ResetRowsOfToken(token) :
                    /\ r.used_at # NULL
                         => AnsweredWith(p, 400, "Reset token already used")
                    /\ (r.used_at = NULL /\ r.expires_at < now)
                         => AnsweredWith(p, 400, "Reset token expired")
               /\ (proc'[p].pc = "idle" /\ resp'.status # 200)
                    => UNCHANGED <<users, password_reset_tokens, refresh_tokens>>
    ]_vars

\* C18 witness: a used reset token that is also past expiry has just been
\* answered 'Reset token already used'
C18_Witness ==
  /\ resp.op = "resetPassword" /\ resp.status = 400
  /\ resp.message = "Reset token already used"
  /\ \E r \in ResetRowsOfToken(resp.token) : r.used_at # NULL /\ r.expires_at < now

\* C19: a refresh-token row only moves from active to revoked: once revoked_at
\* is set, no step (rotation, revocation, revocation of all, store, cleanup)
\* clears it or makes the token of the row verify again.
C19_RevokedIsTerminal ==
  [][ \A r \in refresh_tokens :
        r.revoked_at # NULL
          => /\ \A q \in refresh_tokens' : q.id = r.id => q.revoked_at # NULL
             /\ verifyRefreshToken(refresh_tokens', r.token, now') = NoRow
    ]_vars

\* C19 witness: a row revoked at an earlier time is still revoked after a later
\* row was stored, and its token does not verify
C19_Witness ==
  \E r, q \in refresh_tokens :
    /\ r.revoked_at # NULL /\ r.revoked_at < now
    /\ q.id > r.id /\ q.revoked_at = NULL /\ q.expires_at > r.expires_at
    /\ verifyRefreshToken(refresh_tokens, r.token, now) = NoRow

\* C20: login leaves every existing refresh-token row of the user unchanged, and
\* a token of the user that verified before the login verifies after it.
C20_LoginKeepsEarlierSessions ==
  [][ \A p \in Procs :
        (proc[p].pc = "login_store" /\ proc'[p].pc = "idle")
          => \A r \in refresh_tokens :
               r.user_id = proc[p].user_id
                 => /\ r \in refresh_tokens'
                    /\ verifyRefreshToken(refresh_tokens, r.token, now) # NoRow
                         => verifyRefreshToken(refresh_tokens', r.token, now') # NoRow
    ]_vars

\* the step is no statement of a request: neither a handler nor the call
\* budget moves (the clock, the periodic jobs)
NoRequestStep == proc' = proc /\ quota' = quota /\ resp' = NoResp

\* C22: a refresh-token row is hard-deleted only by the periodic cleanup and
\* only when it is expired by more than the retention window; no statement of
\* signup, login, refresh or logout deletes a row, and no row verifyRefreshToken
\* would accept is deleted.
C22_RefreshRowsDeletedOnlyByCleanup ==
  [][ \A r \in refresh_tokens :
        (\A q \in refresh_tokens' : q.id # r.id)
          => /\ NoRequestStep
             /\ r.expires_at < now - RefreshRetentionDays
             /\ verifyRefreshToken(refresh_tokens, r.token, now) = NoRow
    ]_vars

\* C23: a password-reset row is deleted only after its expiry plus the
\* retention window: no step deletes a reset row whose expires_at is less than
\* the retention window in the past (so that a used token presented again in
\* that period is still found).
C23_ResetRowsKeptForRetention ==
  [][ \A r \in password_reset_tokens :
        (\A q \in password_reset_tokens' : q.id # r.id)
          => r.expires_at < now - ResetRetentionDays
    ]_vars

\* the last call answered was a password reset or change that succeeded
PasswordOperationReturned ==
  resp.op \in {"resetPassword", "changePassword"} /\ resp.status = 200

\* handler q is about to hand out a refresh token for the user of the last
\* response on credentials that are no longer good: a login that compared a
\* password the user no longer has, or a rotation of a token that is revoked
HoldsStaleCredentials(q) ==
  /\ proc[q].user_id = resp.user_id
  /\ \/ /\ proc[q].pc = "login_store"
        /\ \A u \in UserById(resp.user_id) :
             ~comparePassword(proc[q].password, u.password_hash)
     \/ /\ proc[q].pc = "refresh_tx"
        /\ verifyRefreshToken(refresh_tokens, proc[q].token, now) = NoRow

\* C27: once resetPassword or changePassword for user u has returned, no live
\* refresh-token row of u comes from a login with the old password or a refresh
\* of an earlier token that overlapped the password operation.
C27_NoSessionSurvivesPasswordChange ==
  [][ \A q \in Procs :
        ( /\ PasswordOperationReturned
          /\ HoldsStaleCredentials(q)
          /\ proc'[q].pc = "idle" /\ resp'.proc = q /\ resp'.status = 200 )
          => verifyRefreshToken(refresh_tokens', resp'.out_token, now') = NoRow
    ]_vars

\* C28: the audit fields of a revoked row are write-once: after revoked_at is
\* set, no rotation, revocation or revocation of all modifies revoked_at,
\* revoked_by_ip or replaced_by_token, and no token gets a second successor.
C28_AuditFieldsWriteOnce ==
  [][ /\ \A r \in refresh_tokens :
           r.revoked_at # NULL
             => \A q \in refresh_tokens' :
                  q.id = r.id
                    => /\ q.revoked_at = r.revoked_at
                       /\ q.revoked_by_ip = r.revoked_by_ip
                       /\ q.replaced_by_token = r.replaced_by_token
      /\ \A i, j \in issued' :
           (i.from # EmptyToken /\ i.from = j.from) => i.token = j.token
    ]_vars

\* C30: consuming one password-reset token marks only its row used: every other
\* reset row is left unchanged, and every other unused, unexpired token of the
\* same user still passes the checks of resetPassword.
C30_ResetConsumesOnlyItsRow ==
  [][ \A p \in Procs :
        (proc[p].pc = "reset_tx" /\ proc'[p].pc = "reset_revoke")
          => /\ \A r \in password_reset_tokens :
                  r.id # proc[p].rec_id => r \in password_reset_tokens'
             /\ \A r \in password_reset_tokens' :
                  IF r.id = proc[p].rec_id
                    THEN r.used_at # NULL
                    ELSE r \in password_reset_tokens
             /\ \A i \in 1..(nextReset - 1) :
                  ( /\ ResetCheck(password_reset_tokens, ResetTokenValue(i), now).status = 200
                    /\ ResetTokenValue(i) # proc[p].token )
                    => ResetCheck(password_reset_tokens', ResetTokenValue(i), now').status = 200
    ]_vars

\* C30 witness: one of two reset tokens of a user has been consumed and the
\* other one is still unused and passes the checks of resetPassword
C30_Witness ==
  \E r, q \in password_reset_tokens :
    /\ r.user_id = q.user_id
    /\ r.used_at # NULL /\ q.used_at = NULL
    /\ ResetCheck(password_reset_tokens, ResetTokenValue(q.id), now).status = 200
    /\ ConsumedTokens = {ResetTokenValue(r.id)}

\* what a revokeRefreshToken(token) made by a logout in this step returns, and
\* that a second call right after it returns false and changes nothing
RevokedTwice(p, token) ==
  /\ ~revokeRefreshTokenReturns(refresh_tokens', token)
  /\ revokeRefreshToken(refresh_tokens', token, ReqIp(p), now') = refresh_tokens'

\* C21: revokeRefreshToken(token) returns true exactly when it moved a live
\* (non-revoked, non-expired) row to revoked and returns false without changing
\* a row when the token is absent or already revoked; a second call right after
\* returns false and leaves the state of the first.
C21_RevokeReturnsTrueIffLive ==
  [][ \A p \in Procs :
        (StartsCall(p, "logout") /\ resp'.token # EmptyToken)
          => \A token \in {resp'.token} :
               /\ revokeRefreshTokenReturns(refresh_tokens, token)
                    <=> /\ verifyRefreshToken(refresh_tokens, token, now) # NoRow
                        /\ \A r \in RowsOfToken(token)' : r.revoked_at # NULL
               /\ ~revokeRefreshTokenReturns(refresh_tokens, token)
                    => refresh_tokens' = refresh_tokens
               /\ RevokedTwice(p, token)
    ]_vars

\* C21 as amended: revokeRefreshToken(token) returns true exactly when it
\* moved a non-revoked row, expired or not, to revoked, and returns false
\* without changing a row when the token is absent or already revoked; a second
\* call right after returns false and leaves the state of the first.
C21_RevokeReturnsTrueIffNotRevoked ==
  [][ \A p \in Procs :
        (StartsCall(p, "logout") /\ resp'.token # EmptyToken)
          => \A token \in {resp'.token} :
               /\ revokeRefreshTokenReturns(refresh_tokens, token)
                    <=> \E r \in RowsOfToken(token) : r.revoked_at = NULL
               /\ revokeRefreshTokenReturns(refresh_tokens, token)
                    => /\ \A r \in RowsOfToken(token)' : r.revoked_at # NULL
                       /\ \A r \in refresh_tokens :
                            r.token_hash # hashToken(token) => r \in refresh_tokens'
               /\ ~revokeRefreshTokenReturns(refresh_tokens, token)
                    => refresh_tokens' = refresh_tokens
               /\ RevokedTwice(p, token)
    ]_vars

\* C21 witness: a logout has just revoked a row that had expired but was not
\* revoked
C21_Witness ==
  /\ resp.op = "logout" /\ resp.status = 200
  /\ \E r \in RowsOfToken(resp.token) :
       r.revoked_at # NULL /\ r.expires_at < r.revoked_at /\ r.revoked_at = now

\* the refresh-token rows of the user an access token names
RowsOfUser(userId) == {r \in refresh_tokens : r.user_id = userId}

\* C24: authRequired accepts an access token exactly when its signature and
\* type are right and it has not reached its expiry, whatever logout,
\* revokeAllUserTokens, resetPassword or changePassword did to the ledger and
\* the user before, and it changes no row.
C24_AccessTokenAcceptedUntilExpiry ==
  [][ \A p \in Procs :
        StartsCall(p, "authRequired")
          => /\ resp'.status = 200
                  <=> /\ resp'.bearer.key = JwtSecret
                      /\ resp'.bearer.type = "access"
                      /\ now < resp'.bearer.exp
             /\ resp'.status \in {200, 401}
             /\ UNCHANGED <<db, now>>
    ]_vars

\* C24 witness: an access token is accepted although every refresh token of
\* its user is revoked and the password it was issued for has been replaced
C24_Witness ==
  /\ resp.op = "authRequired" /\ resp.status = 200
  /\ RowsOfUser(resp.bearer.sub) # {}
  /\ \A r \in RowsOfUser(resp.bearer.sub) : r.revoked_at # NULL
  /\ consumed # {}

\* the resetPassword call of handler p fails in its revoke step
ResetRevokeStepFails(p) ==
  proc[p].pc = "reset_revoke" /\ proc'[p].pc = "idle" /\ resp'.status # 200

\* C25: the transaction of resetPassword commits the new password hash and
\* the used mark before revokeAllUserTokens runs, and a revoke step that
\* fails leaves both committed: it changes no user row and no reset row, and
\* the reset row of the call is still marked used.
C25_ResetCommittedBeforeRevoke ==
  [][ \A p \in Procs :
        /\ (proc[p].pc = "reset_tx" /\ proc'[p].pc = "reset_revoke")
             => /\ \A u \in users' : u.id = proc[p].user_id => u.password_hash = proc[p].hash
                /\ \A r \in password_reset_tokens' : r.id = proc[p].rec_id => r.used_at # NULL
                /\ refresh_tokens' = refresh_tokens
        /\ ResetRevokeStepFails(p)
             => /\ users' = users
                /\ password_reset_tokens' = password_reset_tokens
                /\ \E r \in password_reset_tokens' : r.id = proc[p].rec_id /\ r.used_at # NULL
                /\ resp'.status = 500
    ]_vars

\* C25 witness: a resetPassword call has just failed in its revoke step, the
\* user has the new password, the reset row is used and a refresh token of the
\* user is still live
C25_Witness ==
  /\ resp.op = "resetPassword" /\ resp.status = 500
  /\ \E u \in users : u.id = resp.user_id /\ comparePassword(resp.password, u.password_hash)
  /\ \E r \in ResetRowsOfToken(resp.token) : r.used_at # NULL
  /\ \E r \in refresh_tokens : r.user_id = resp.user_id /\ r.revoked_at = NULL

\* the refreshAccessToken call of handler p ends in this step without a result
RotationFails(p) ==
  /\ proc[p].op = "refresh" /\ proc[p].pc \in {"refresh_rotate", "refresh_tx"}
  /\ proc'[p].pc = "idle" /\ resp'.status # 200

\* C26: in every committed state a row with a successor reference is revoked,
\* has revoked_by_ip set and refers to an existing row of the same user, and
\* the row a rotation created exists only while its old row, if still stored,
\* is revoked with a successor; a rotation that fails in a statement of its
\* transaction or in its verification throws and changes no row.
C26_RotationAllOrNothing ==
  [][ /\ \A r \in refresh_tokens' :
           r.replaced_by_token # NULL
             => /\ r.revoked_at # NULL
                /\ r.revoked_by_ip # ""
                /\ \E q \in refresh_tokens' :
                     q.id = r.replaced_by_token /\ q.user_id = r.user_id
      /\ \A i \in issued' :
           (i.from # EmptyToken /\ RowsOfToken(i.token)' # {})
             => \A r \in RowsOfToken(i.from)' :
                  r.revoked_at # NULL /\ r.replaced_by_token # NULL
      /\ \A p \in Procs :
           RotationFails(p)
             => /\ refresh_tokens' = refresh_tokens
                /\ issued' = issued /\ rotated' = rotated
                /\ resp'.status = 500
    ]_vars

\* C26 witness: a rotation has just failed and left the old row live with no
\* successor, after an earlier rotation committed
C26_Witness ==
  /\ resp.op = "refresh" /\ resp.status = 500
  /\ verifyRefreshToken(refresh_tokens, resp.token, now) # NoRow
  /\ \E r \in RowsOfToken(resp.token) : r.replaced_by_token = NULL
  /\ \E r, q \in refresh_tokens : r.replaced_by_token = q.id

\* the organization INSERT of the signup call of handler p fails in this step
SignupFailsInTx(p) ==
  proc[p].pc = "signup_tx" /\ proc'[p].pc = "idle" /\ resp'.status # 200

====
